---- MODULE Spec2Model ----
(***************************************************************************)
(* Model of scripts/fetch_data.py: a batch job that, inside a local time   *)
(* window, samples a random uint16 and a spot price, completes the         *)
(* previous ledger row, appends one row for today and rewrites the CSV     *)
(* store.                                                                  *)
(*                                                                         *)
(* Strings are modelled as tuples of one-character strings (the timestamp  *)
(* t, the API key) or as tagged records (the numeric columns).  Python     *)
(* floats are modelled as exact rationals plus NaN; _round rounds them to  *)
(* a fixed number of decimals, half to even.                               *)
(***************************************************************************)
EXTENDS Integers, Sequences, FiniteSets, TLC

\* ------------------------------------------------------------------ bounds
\* Calendar days the clock can show (2024-01-01 .. 2024-01-MaxDay).
MaxDay == 2

\* Invocations that may exist at once (overlap is enabled per specification).
Procs == {1, 2}

\* Days on which the ledger grown from a header-only store is invoked.
MaxFreshDay == 3

\* --------------------------------------------------------------- constants
HEADER == <<"t", "q", "v", "qV", "qP", "aV", "aP">>

\* A store provisioned with the columns in another order.
BadHeader == <<"t", "v", "q", "qV", "qP", "aV", "aP">>

WindowStart == 20
WindowEnd == 22
DateLen == 10
Uint16Max == 65535

\* ------------------------------------------------------------ column text
\* The text of a numeric column: "" | " " | a decimal with nd digits after
\* the point (n is the value scaled by 10^nd) | "nan" | text float() rejects.
Str(k, nd, n) == [k |-> k, nd |-> nd, n |-> n]
EmptyStr == Str("empty", 0, 0)
BlankStr == Str("blank", 0, 0)
NanStr == Str("nan", 0, 0)
JunkStr == Str("junk", 0, 0)
Dec(nd, n) == Str("dec", nd, n)

\* is_empty: None or whitespace-only text.
is_empty(s) == s.k \in {"empty", "blank"}

\* ------------------------------------------------------------------ floats
Abs(i) == IF i < 0 THEN -i ELSE i

RECURSIVE GCD(_, _)
GCD(a, b) == IF b = 0 THEN a ELSE GCD(b, a % b)

RECURSIVE Pow10(_)
Pow10(k) == IF k = 0 THEN 1 ELSE 10 * Pow10(k - 1)

NaN == [fin |-> FALSE, num |-> 0, den |-> 1]

\* The finite float num/den, den > 0, in lowest terms.
Rat(num, den) ==
    LET g == GCD(Abs(num), den)
    IN  [fin |-> TRUE, num |-> num \div g, den |-> den \div g]

FAdd(x, y) ==
    IF x.fin /\ y.fin THEN Rat(x.num * y.den + y.num * x.den, x.den * y.den) ELSE NaN

FSub(x, y) ==
    IF x.fin /\ y.fin THEN Rat(x.num * y.den - y.num * x.den, x.den * y.den) ELSE NaN

FMul(x, y) ==
    IF x.fin /\ y.fin THEN Rat(x.num * y.num, x.den * y.den) ELSE NaN

\* x / y for y # 0 (the code guards the division).
FDiv(x, y) ==
    IF x.fin /\ y.fin
    THEN IF y.num < 0 THEN Rat(-(x.num * y.den), x.den * (-y.num))
                      ELSE Rat(x.num * y.den, x.den * y.num)
    ELSE NaN

FAbs(x) == IF x.fin THEN [x EXCEPT !.num = Abs(x.num)] ELSE NaN

\* Long division: <<floor(r * 10^k / den) + whole * 10^k, remainder>>.
RECURSIVE Scale(_, _, _, _)
Scale(whole, r, den, k) ==
    IF k = 0 THEN <<whole, r>>
    ELSE Scale(whole * 10 + ((r * 10) \div den), (r * 10) % den, den, k - 1)

\* round(x, ndigits) as an integer count of 10^-ndigits, ties to even.
RoundScaled(x, ndigits) ==
    LET a  == Abs(x.num)
        wr == Scale(a \div x.den, a % x.den, x.den, ndigits)
        w  == wr[1]
        r  == wr[2]
        m  == IF 2 * r > x.den THEN w + 1
              ELSE IF 2 * r = x.den THEN w + (w % 2)
              ELSE w
    IN  IF x.num < 0 THEN -m ELSE m

\* _round: "" for a non-finite value, else the fixed-point text.
_round(x, ndigits) ==
    IF ~x.fin THEN EmptyStr ELSE Dec(ndigits, RoundScaled(x, ndigits))

\* float(s): ok is FALSE where Python raises.
ParseFloat(s) ==
    CASE s.k = "dec" -> [ok |-> TRUE, x |-> Rat(s.n, Pow10(s.nd))]
      [] s.k = "nan" -> [ok |-> TRUE, x |-> NaN]
      [] OTHER       -> [ok |-> FALSE, x |-> NaN]

\* Variant: the divisor is 2^16.
map_uint16_to_q_65536(n) == FAdd(Rat(-1, 1), FMul(Rat(2, 1), Rat(n, Uint16Max + 1)))

map_uint16_to_q(n) == FAdd(Rat(-1, 1), FMul(Rat(2, 1), Rat(n, Uint16Max)))

\* ------------------------------------------------------------- timestamps
Digit(d) == <<"0", "1", "2", "3", "4", "5", "6", "7", "8", "9">>[d + 1]
TwoDigits(n) == <<Digit(n \div 10), Digit(n % 10)>>

\* date.isoformat() of day d of January 2024.
IsoDate(d) == <<"2", "0", "2", "4", "-", "0", "1", "-">> \o TwoDigits(d)

\* datetime.now(BUDAPEST_TZ): the UTC instant shifted by the zone's offset.
ToLocal(day, utcsec, off) ==
    LET s == utcsec + off * 3600
    IN  IF s >= 86400
        THEN [day |-> day + 1, sec |-> s - 86400, off |-> off]
        ELSE [day |-> day, sec |-> s, off |-> off]

Hour(now) == now.sec \div 3600

\* now_local.isoformat(timespec="seconds")
IsoFormat(now) ==
    IsoDate(now.day) \o <<"T">> \o TwoDigits(Hour(now)) \o <<":">>
      \o TwoDigits((now.sec % 3600) \div 60) \o <<":">>
      \o TwoDigits(now.sec % 60) \o <<"+">> \o TwoDigits(now.off)
      \o <<":", "0", "0">>

Today(now) == IsoDate(now.day)

RECURSIVE LStrip(_)
LStrip(s) == IF s # <<>> /\ Head(s) = " " THEN LStrip(Tail(s)) ELSE s

RECURSIVE RStrip(_)
RStrip(s) ==
    IF s # <<>> /\ s[Len(s)] = " " THEN RStrip(SubSeq(s, 1, Len(s) - 1)) ELSE s

Strip(s) == RStrip(LStrip(s))

\* The first 10 characters of a timestamp (all of it when shorter).
DatePrefix(t) == SubSeq(t, 1, IF Len(t) < DateLen THEN Len(t) ELSE DateLen)

\* Variant: t is compared as stored.
has_row_for_date_NoStrip(rows, yyyy_mm_dd) ==
    \E i \in 1..Len(rows) :
        LET t == rows[i].t
        IN  Len(t) >= DateLen /\ SubSeq(t, 1, DateLen) = yyyy_mm_dd

\* Variant: only the most recent row is looked at.
has_row_for_date_LastOnly(rows, yyyy_mm_dd) ==
    /\ rows # <<>>
    /\ LET t == Strip(rows[Len(rows)].t)
       IN  Len(t) >= DateLen /\ SubSeq(t, 1, DateLen) = yyyy_mm_dd

\* Variant: only the oldest row is looked at.
has_row_for_date_FirstOnly(rows, yyyy_mm_dd) ==
    /\ rows # <<>>
    /\ LET t == Strip(rows[1].t)
       IN  Len(t) >= DateLen /\ SubSeq(t, 1, DateLen) = yyyy_mm_dd

has_row_for_date(rows, yyyy_mm_dd) ==
    \E i \in 1..Len(rows) :
        LET t == Strip(rows[i].t)
        IN  Len(t) >= DateLen /\ SubSeq(t, 1, DateLen) = yyyy_mm_dd

\* ------------------------------------------------------------------ ledger
\* A row as csv.DictReader returns it: the seven HEADER columns, and under
\* the key None the cells of the line beyond them (rest).
Row(t, q, v, qV, qP, aV, aP) ==
    [t |-> t, q |-> q, v |-> v, qV |-> qV, qP |-> qP, aV |-> aV, aP |-> aP,
     rest |-> <<>>]

\* A row of a line with more cells than the header has columns.
LongRow(row, cells) == [row EXCEPT !.rest = cells]

\* Variant: one empty deviation field is enough.
PrevGuard_Either(prev) ==
    (is_empty(prev.aV) \/ is_empty(prev.aP)) /\ ~is_empty(prev.qV)

\* Variant: the deviation fields are not looked at.
PrevGuard_IgnoreDone(prev) == ~is_empty(prev.qV)

\* The guard of the previous-row completion.
PrevGuard(prev) ==
    is_empty(prev.aV) /\ is_empty(prev.aP) /\ ~is_empty(prev.qV)

\* prev_qV is usable: float() accepted it and it is finite.
PrevUsable(prev) ==
    LET f == ParseFloat(prev.qV) IN f.ok /\ f.x.fin

\* Variant: the deviation keeps its sign.
PatchRow_NoAbs(prev, v) ==
    LET prev_qV == ParseFloat(prev.qV).x
        aV      == FSub(v, prev_qV)
    IN  [prev EXCEPT !.aV = _round(aV, 2),
                     !.aP = IF prev_qV.num # 0 THEN _round(FDiv(aV, prev_qV), 6)
                            ELSE EmptyStr]

\* Variant: the absolute deviation is stored under the key qV.
PatchRow_WrongKey(prev, v) ==
    LET prev_qV == ParseFloat(prev.qV).x
        aV      == FAbs(FSub(v, prev_qV))
    IN  [prev EXCEPT !.qV = _round(aV, 2),
                     !.aP = IF prev_qV.num # 0 THEN _round(FDiv(aV, prev_qV), 6)
                            ELSE EmptyStr]

\* Variant: the deviation is taken from the previous row's v.
PatchRow_FromV(prev, v) ==
    LET prev_qV == ParseFloat(prev.v).x
        aV      == FAbs(FSub(v, prev_qV))
    IN  [prev EXCEPT !.aV = _round(aV, 2),
                     !.aP = IF prev_qV.num # 0 THEN _round(FDiv(aV, prev_qV), 6)
                            ELSE EmptyStr]

\* The previous row with aV and aP filled in from the actual price v.
PatchRow(prev, v) ==
    LET prev_qV == ParseFloat(prev.qV).x
        aV      == FAbs(FSub(v, prev_qV))
    IN  [prev EXCEPT !.aV = _round(aV, 2),
                     !.aP = IF prev_qV.num # 0 THEN _round(FDiv(aV, prev_qV), 6)
                            ELSE EmptyStr]

\* Whether the completion assigns prev["aV"] and prev["aP"].
WillPatch(rows) ==
    /\ rows # <<>>
    /\ PrevGuard(rows[Len(rows)])
    /\ PrevUsable(rows[Len(rows)])

\* The loaded rows after the completion of the last one.
CompletePrevious(rows, v) ==
    IF WillPatch(rows)
    THEN [rows EXCEPT ![Len(rows)] = PatchRow(rows[Len(rows)], v)]
    ELSE rows

\* Variant: the new row is given the deviation of its own qV from its own v.
NewRow_SelfDeviation(now, q, v) ==
    LET qV == FMul(v, FAdd(Rat(1, 1), q))
    IN  Row(IsoFormat(now), _round(q, 6), _round(v, 2), _round(qV, 2),
            _round(q, 6), _round(FAbs(FSub(v, qV)), 2), EmptyStr)

\* The row appended for this run.
NewRow(now, q, v) ==
    LET qV == FMul(v, FAdd(Rat(1, 1), q))
    IN  Row(IsoFormat(now), _round(q, 6), _round(v, 2), _round(qV, 2),
            _round(q, 6), EmptyStr, EmptyStr)

\* What writerow puts on a line: the HEADER columns of the row, nothing else.
ProjectRow(row) == Row(row.t, row.q, row.v, row.qV, row.qP, row.aV, row.aP)

\* ------------------------------------------------------------------ inputs
Days == 1..MaxDay

\* 17:59:59, 18:00:00, 20:59:59 and 21:00:00 UTC: with the two offsets these
\* are 18:59:59 .. 23:00:00 local, on both sides of both ends of the window.
UtcInstants == {64799, 64800, 75599, 75600}

\* Europe/Budapest is UTC+1 (CET) or UTC+2 (CEST).
Offsets == {1, 2}

\* os.environ.get(ANU_API_KEY_ENV): unset, " " or a key.
NoKey == [set |-> FALSE, val |-> <<>>]
Keys == {NoKey, [set |-> TRUE, val |-> <<" ">>], [set |-> TRUE, val |-> <<"k">>]}

KeyMissing_NoStrip(key) == ~key.set \/ key.val = <<>>

KeyMissing(key) == ~key.set \/ key.val = <<>> \/ Strip(key.val) = <<>>

\* Integers the random source may return in data[0].
AnuNumbers == {0, 32768}
AnuOutOfRange == {65536}

\* Amounts the price source may return.
Prices == {Rat(100, 1), Rat(105, 1), NaN}

\* --------------------------------------------------------------- the store
Absent == [exists |-> FALSE, header |-> <<>>, rows |-> <<>>]
File(header, rows) == [exists |-> TRUE, header |-> header, rows |-> rows]

T0 == IsoFormat([day |-> 1, sec |-> 72000, off |-> 1])
Q0 == Dec(6, 15)
V0 == Dec(2, 10000)

\* Ledgers the store may be provisioned with: no two rows share a date.
InitLedgers ==
    { <<>>,
      <<Row(T0, Q0, V0, Dec(2, 10000), Q0, EmptyStr, EmptyStr)>>,
      <<Row(T0, Q0, V0, Dec(2, 10000), Q0, BlankStr, EmptyStr)>>,
      <<Row(T0, Q0, V0, JunkStr, Q0, EmptyStr, EmptyStr)>>,
      <<Row(T0, Q0, V0, NanStr, Q0, EmptyStr, EmptyStr)>>,
      <<Row(T0, Q0, V0, EmptyStr, Q0, EmptyStr, EmptyStr)>>,
      <<Row(T0, Q0, V0, Dec(2, 10000), Q0, Dec(2, 500), Dec(6, 50000))>>,
      <<Row(T0, Dec(6, -1000000), V0, Dec(2, 0), Dec(6, -1000000), Dec(2, 10500), EmptyStr)>>,
      <<Row(<<" ">> \o T0, Q0, V0, Dec(2, 10000), Q0, EmptyStr, EmptyStr)>>,
      <<LongRow(Row(T0, Q0, V0, Dec(2, 10000), Q0, EmptyStr, EmptyStr), <<"x">>)>> }

InitStores ==
    {Absent, File(BadHeader, <<>>)} \cup {File(HEADER, l) : l \in InitLedgers}

\* ------------------------------------------------------------------- state
VARIABLES
    store,      \* data/data.csv
    pc,         \* where each invocation of main is
    now,        \* now_local
    rows,       \* the in-memory ledger
    n,          \* the random uint16
    v,          \* the spot price
    patched,    \* whether this invocation assigned prev["aV"] and prev["aP"]
    wi,         \* index of the next row write_csv writes
    outcome,    \* how the invocation ended
    exitCode,   \* the process exit status
    anuReqs,    \* requests sent to the random source by this invocation
    priceReqs,  \* requests sent to the price source by this invocation
    writes,     \* times this invocation opened the store for writing
    store0,     \* the store as it was when the invocation started
    lastOk,     \* the date appended by the previous invocation, if it appended
    key,        \* the ANU_QRNG_API_KEY of the invocation's environment
    q,          \* the mapped random quantity
    failedOn,   \* the date of the previous invocation, if it failed past the gates
    tornRead    \* some invocation has loaded the store during another's rewrite

vars == <<store, pc, now, rows, n, v, patched, wi, outcome, exitCode, anuReqs,
          priceReqs, writes, store0, lastOk, key, q, failedOn, tornRead>>

NoNow == [day |-> 0, sec |-> 0, off |-> 0]

Init ==
    /\ store \in InitStores
    /\ pc = [p \in Procs |-> "idle"]
    /\ now = [p \in Procs |-> NoNow]
    /\ rows = [p \in Procs |-> <<>>]
    /\ n = [p \in Procs |-> 0]
    /\ v = [p \in Procs |-> NaN]
    /\ patched = [p \in Procs |-> FALSE]
    /\ wi = [p \in Procs |-> 0]
    /\ outcome = [p \in Procs |-> "none"]
    /\ exitCode = [p \in Procs |-> 0]
    /\ anuReqs = [p \in Procs |-> 0]
    /\ priceReqs = [p \in Procs |-> 0]
    /\ writes = [p \in Procs |-> 0]
    /\ store0 = [p \in Procs |-> Absent]
    /\ lastOk = <<>>
    /\ key = [p \in Procs |-> NoKey]
    /\ q = [p \in Procs |-> NaN]
    /\ failedOn = <<>>
    /\ tornRead = FALSE

\* Variant: every way out of main reports success.
End_Swallow(p, how, code) ==
    /\ pc' = [pc EXCEPT ![p] = "done"]
    /\ outcome' = [outcome EXCEPT ![p] = how]
    /\ exitCode' = [exitCode EXCEPT ![p] = 0]

\* The invocation ends: return code, or an exception leaving main.
End(p, how, code) ==
    /\ pc' = [pc EXCEPT ![p] = "done"]
    /\ outcome' = [outcome EXCEPT ![p] = how]
    /\ exitCode' = [exitCode EXCEPT ![p] = code]

\* Variant: the window is closed at its upper end.
InWindow_Closed(t) == Hour(t) >= WindowStart /\ Hour(t) <= WindowEnd

InWindow(t) == Hour(t) >= WindowStart /\ Hour(t) < WindowEnd

\* Variant: the window skip is reported as a failure and the store is
\* touched on the way out.
Gate_SkipFails(p) ==
    /\ pc[p] = "idle"
    /\ \A o \in Procs : pc[o] = "idle"
    /\ \E day \in Days, utcsec \in UtcInstants, off \in Offsets :
         LET t == ToLocal(day, utcsec, off)
         IN  /\ now' = [now EXCEPT ![p] = t]
             /\ IF InWindow(t)
                THEN /\ pc' = [pc EXCEPT ![p] = "load"]
                     /\ UNCHANGED <<outcome, exitCode>>
                ELSE End(p, "skip_window", 1)
    /\ \E k \in Keys : key' = [key EXCEPT ![p] = k]
    /\ store0' = [store0 EXCEPT ![p] = store]
    /\ UNCHANGED <<store, rows, n, v, patched, wi, anuReqs, priceReqs, writes, lastOk,
                   q, failedOn, tornRead>>

\* main starts in some environment: read the clock, apply the window gate.
Gate(p) ==
    /\ pc[p] = "idle"
    /\ \A o \in Procs : pc[o] = "idle"
    /\ \E day \in Days, utcsec \in UtcInstants, off \in Offsets :
         LET t == ToLocal(day, utcsec, off)
         IN  /\ now' = [now EXCEPT ![p] = t]
             /\ IF InWindow(t)
                THEN /\ pc' = [pc EXCEPT ![p] = "load"]
                     /\ UNCHANGED <<outcome, exitCode>>
                ELSE End(p, "skip_window", 0)
    /\ \E k \in Keys : key' = [key EXCEPT ![p] = k]
    /\ store0' = [store0 EXCEPT ![p] = store]
    /\ UNCHANGED <<store, rows, n, v, patched, wi, anuReqs, priceReqs, writes, lastOk,
                   q, failedOn, tornRead>>

\* Variant: a missing store is created with the header and read as empty.
Load_AutoCreate(p) ==
    /\ pc[p] = "load"
    /\ IF store.exists /\ store.header # HEADER
       THEN End(p, "schema", 1) /\ UNCHANGED <<rows, store>>
       ELSE /\ store' = IF store.exists THEN store ELSE File(HEADER, <<>>)
            /\ rows' = [rows EXCEPT ![p] = store.rows]
            /\ IF has_row_for_date(store.rows, Today(now[p]))
               THEN End(p, "skip_dup", 0)
               ELSE /\ pc' = [pc EXCEPT ![p] = "anu"]
                    /\ UNCHANGED <<outcome, exitCode>>
    /\ tornRead' = (tornRead \/ \E o \in Procs \ {p} : pc[o] \in {"header", "rows"})
    /\ store0' = [store0 EXCEPT ![p] = store]
    /\ UNCHANGED <<now, n, v, patched, wi, anuReqs, priceReqs, writes,
                   lastOk, key, q, failedOn>>

\* read_csv, then the duplicate-date check.
Load(p) ==
    /\ pc[p] = "load"
    /\ IF ~store.exists
       THEN End(p, "missing_store", 1) /\ UNCHANGED rows
       ELSE IF store.header # HEADER
       THEN End(p, "schema", 1) /\ UNCHANGED rows
       ELSE /\ rows' = [rows EXCEPT ![p] = store.rows]
            /\ IF has_row_for_date(store.rows, Today(now[p]))
               THEN End(p, "skip_dup", 0)
               ELSE /\ pc' = [pc EXCEPT ![p] = "anu"]
                    /\ UNCHANGED <<outcome, exitCode>>
    /\ tornRead' = (tornRead \/ \E o \in Procs \ {p} : pc[o] \in {"header", "rows"})
    /\ store0' = [store0 EXCEPT ![p] = store]
    /\ UNCHANGED <<store, now, n, v, patched, wi, anuReqs, priceReqs, writes,
                   lastOk, key, q, failedOn>>

\* Variant: the upper end of the range is not checked.
FetchAnu_RangeUnchecked(p) ==
    /\ pc[p] = "anu"
    /\ IF KeyMissing(key[p])
       THEN End(p, "no_key", 1) /\ UNCHANGED <<n, q, anuReqs>>
       ELSE /\ anuReqs' = [anuReqs EXCEPT ![p] = @ + 1]
            /\ \/ End(p, "anu_transport", 1) /\ UNCHANGED <<n, q>>
               \/ End(p, "anu_status", 1) /\ UNCHANGED <<n, q>>
               \/ End(p, "anu_nonjson", 1) /\ UNCHANGED <<n, q>>
               \/ End(p, "anu_shape", 1) /\ UNCHANGED <<n, q>>
               \/ \E k \in AnuNumbers \cup AnuOutOfRange :
                    IF 0 <= k
                    THEN /\ n' = [n EXCEPT ![p] = k]
                         /\ q' = [q EXCEPT ![p] = map_uint16_to_q(k)]
                         /\ pc' = [pc EXCEPT ![p] = "price"]
                         /\ UNCHANGED <<outcome, exitCode>>
                    ELSE End(p, "anu_range", 1) /\ UNCHANGED <<n, q>>
    /\ UNCHANGED <<store, now, rows, v, patched, wi, priceReqs, writes, store0, lastOk,
                   key, failedOn, tornRead>>

\* fetch_anu_uint16, then the mapping of its result.
FetchAnu(p) ==
    /\ pc[p] = "anu"
    /\ IF KeyMissing(key[p])
       THEN End(p, "no_key", 1) /\ UNCHANGED <<n, q, anuReqs>>
       ELSE /\ anuReqs' = [anuReqs EXCEPT ![p] = @ + 1]
            /\ \/ End(p, "anu_transport", 1) /\ UNCHANGED <<n, q>>
               \/ End(p, "anu_status", 1) /\ UNCHANGED <<n, q>>
               \/ End(p, "anu_nonjson", 1) /\ UNCHANGED <<n, q>>
               \/ End(p, "anu_shape", 1) /\ UNCHANGED <<n, q>>
               \/ \E k \in AnuNumbers \cup AnuOutOfRange :
                    IF 0 <= k /\ k <= Uint16Max
                    THEN /\ n' = [n EXCEPT ![p] = k]
                         /\ q' = [q EXCEPT ![p] = map_uint16_to_q(k)]
                         /\ pc' = [pc EXCEPT ![p] = "price"]
                         /\ UNCHANGED <<outcome, exitCode>>
                    ELSE End(p, "anu_range", 1) /\ UNCHANGED <<n, q>>
    /\ UNCHANGED <<store, now, rows, v, patched, wi, priceReqs, writes, store0, lastOk,
                   key, failedOn, tornRead>>

\* fetch_btc_usd_spot
FetchPrice(p) ==
    /\ pc[p] = "price"
    /\ priceReqs' = [priceReqs EXCEPT ![p] = @ + 1]
    /\ \/ End(p, "price_http", 1) /\ UNCHANGED v
       \/ End(p, "price_shape", 1) /\ UNCHANGED v
       \/ End(p, "price_parse", 1) /\ UNCHANGED v
       \/ \E x \in Prices :
            /\ v' = [v EXCEPT ![p] = x]
            /\ pc' = [pc EXCEPT ![p] = "compute"]
            /\ UNCHANGED <<outcome, exitCode>>
    /\ UNCHANGED <<store, now, rows, n, patched, wi, anuReqs, writes, store0, lastOk,
                   key, q, failedOn, tornRead>>

\* Variant: the new row goes in front.
Compute_Prepend(p) ==
    /\ pc[p] = "compute"
    /\ rows' = [rows EXCEPT ![p] =
                  <<NewRow(now[p], q[p], v[p])>> \o CompletePrevious(rows[p], v[p])]
    /\ patched' = [patched EXCEPT ![p] = WillPatch(rows[p])]
    /\ pc' = [pc EXCEPT ![p] = "open"]
    /\ UNCHANGED <<store, now, n, v, wi, outcome, exitCode, anuReqs, priceReqs,
                   writes, store0, lastOk, key, q, failedOn, tornRead>>

\* Variant: the new row is not appended.
Compute_NoAppend(p) ==
    /\ pc[p] = "compute"
    /\ rows' = [rows EXCEPT ![p] =
                  CompletePrevious(rows[p], v[p])]
    /\ patched' = [patched EXCEPT ![p] = WillPatch(rows[p])]
    /\ pc' = [pc EXCEPT ![p] = "open"]
    /\ UNCHANGED <<store, now, n, v, wi, outcome, exitCode, anuReqs, priceReqs,
                   writes, store0, lastOk, key, q, failedOn, tornRead>>

\* The derived fields, the completion of the previous row, the append.
Compute(p) ==
    /\ pc[p] = "compute"
    /\ rows' = [rows EXCEPT ![p] =
                  Append(CompletePrevious(rows[p], v[p]),
                         NewRow(now[p], q[p], v[p]))]
    /\ patched' = [patched EXCEPT ![p] = WillPatch(rows[p])]
    /\ pc' = [pc EXCEPT ![p] = "open"]
    /\ UNCHANGED <<store, now, n, v, wi, outcome, exitCode, anuReqs, priceReqs,
                   writes, store0, lastOk, key, q, failedOn, tornRead>>

\* write_csv: mkdir, open("w") creates or truncates the file.
WriteOpen(p) ==
    /\ pc[p] = "open"
    /\ store' = File(<<>>, <<>>)
    /\ writes' = [writes EXCEPT ![p] = @ + 1]
    /\ pc' = [pc EXCEPT ![p] = "header"]
    /\ UNCHANGED <<now, rows, n, v, patched, wi, outcome, exitCode, anuReqs,
                   priceReqs, store0, lastOk, key, q, failedOn, tornRead>>

\* write_csv: writeheader
WriteHeader(p) ==
    /\ pc[p] = "header"
    /\ store' = [store EXCEPT !.exists = TRUE, !.header = HEADER]
    /\ wi' = [wi EXCEPT ![p] = 1]
    /\ pc' = [pc EXCEPT ![p] = "rows"]
    /\ UNCHANGED <<now, rows, n, v, patched, outcome, exitCode, anuReqs, priceReqs,
                   writes, store0, lastOk, key, q, failedOn, tornRead>>

\* The line a reader finds where the file has a hole: no writer has written
\* there since the last truncation.
NulRow == Row(<<"NUL">>, EmptyStr, EmptyStr, EmptyStr, EmptyStr, EmptyStr, EmptyStr)

\* The lines of a file after a write of line r at line offset i: the file
\* was opened with "w", not "a", so the writer's own offset decides.
\* Variant: every write goes to the end of the file, as under open("a").
PutLine_Append(lines, i, r) == Append(lines, r)

RECURSIVE PutLine(_, _, _)
PutLine(lines, i, r) ==
    IF i <= Len(lines) THEN [lines EXCEPT ![i] = r]
    ELSE IF i = Len(lines) + 1 THEN Append(lines, r)
    ELSE PutLine(Append(lines, NulRow), i, r)

\* write_csv: one writerow
WriteRow(p) ==
    /\ pc[p] = "rows"
    /\ wi[p] <= Len(rows[p])
    /\ store' = [store EXCEPT !.exists = TRUE,
                              !.rows = PutLine(@, wi[p], ProjectRow(rows[p][wi[p]]))]
    /\ wi' = [wi EXCEPT ![p] = @ + 1]
    /\ UNCHANGED <<pc, now, rows, n, v, patched, outcome, exitCode, anuReqs,
                   priceReqs, writes, store0, lastOk, key, q, failedOn, tornRead>>

\* write_csv returns; main prints [OK] and returns 0.
Finish(p) ==
    /\ pc[p] = "rows"
    /\ wi[p] > Len(rows[p])
    /\ End(p, "ok", 0)
    /\ UNCHANGED <<store, now, rows, n, v, patched, wi, anuReqs, priceReqs, writes,
                   store0, lastOk, key, q, failedOn, tornRead>>

\* The outcomes of a failed fetch: no key, or either source failing.
FetchFailures ==
    {"no_key", "anu_transport", "anu_status", "anu_nonjson", "anu_shape",
     "anu_range", "price_http", "price_shape", "price_parse"}

\* The process is gone; the next invocation starts from scratch.
Exit(p) ==
    /\ pc[p] = "done"
    /\ lastOk' = IF outcome[p] = "ok" THEN Today(now[p]) ELSE <<>>
    /\ pc' = [pc EXCEPT ![p] = "idle"]
    /\ now' = [now EXCEPT ![p] = NoNow]
    /\ rows' = [rows EXCEPT ![p] = <<>>]
    /\ n' = [n EXCEPT ![p] = 0]
    /\ v' = [v EXCEPT ![p] = NaN]
    /\ patched' = [patched EXCEPT ![p] = FALSE]
    /\ wi' = [wi EXCEPT ![p] = 0]
    /\ outcome' = [outcome EXCEPT ![p] = "none"]
    /\ exitCode' = [exitCode EXCEPT ![p] = 0]
    /\ anuReqs' = [anuReqs EXCEPT ![p] = 0]
    /\ priceReqs' = [priceReqs EXCEPT ![p] = 0]
    /\ writes' = [writes EXCEPT ![p] = 0]
    /\ store0' = [store0 EXCEPT ![p] = Absent]
    /\ key' = [key EXCEPT ![p] = NoKey]
    /\ q' = [q EXCEPT ![p] = NaN]
    /\ failedOn' = IF outcome[p] \in FetchFailures THEN Today(now[p]) ELSE <<>>
    /\ UNCHANGED <<store, tornRead>>

Next ==
    \E p \in Procs :
        \/ Gate(p)
        \/ Load(p)
        \/ FetchAnu(p)
        \/ FetchPrice(p)
        \/ Compute(p)
        \/ WriteOpen(p)
        \/ WriteHeader(p)
        \/ WriteRow(p)
        \/ Finish(p)
        \/ Exit(p)

\* Invocations run one at a time.
Spec == Init /\ [][Next]_vars

\* The process is killed while write_csv has the store open for writing, or
\* just before it opens it.
Interrupt(p) ==
    /\ pc[p] \in {"open", "header", "rows"}
    /\ End(p, "killed", 137)
    /\ UNCHANGED <<store, now, rows, n, v, patched, wi, anuReqs, priceReqs, writes,
                   store0, lastOk, key, q, failedOn, tornRead>>

NextInterrupt ==
    \E p \in Procs :
        \/ Gate(p)
        \/ Load(p)
        \/ FetchAnu(p)
        \/ FetchPrice(p)
        \/ Compute(p)
        \/ WriteOpen(p)
        \/ WriteHeader(p)
        \/ WriteRow(p)
        \/ Finish(p)
        \/ Exit(p)
        \/ Interrupt(p)

\* Invocations run one at a time and may be killed while persisting.
SpecInterrupt == Init /\ [][NextInterrupt]_vars

\* ------------------------------------------------------------------ claims
\* Text that is_empty does not treat as empty.
NonEmpty(s) == s.k \notin {"empty", "blank"}

\* The invocations that got as far as rewriting the store.
Persisting(p) == pc[p] \in {"header", "rows"} \/ (pc[p] = "done" /\ outcome[p] = "ok")

\* The number of rows of a ledger whose first 10 characters are the date d.
RECURSIVE CountDate(_, _)
CountDate(l, d) ==
    IF l = <<>> THEN 0
    ELSE (IF DatePrefix(Head(l).t) = d THEN 1 ELSE 0) + CountDate(Tail(l), d)

\* C1: with invocations run one at a time, at any clock readings and with
\* any outcome of the two fetches, the store never holds two rows whose
\* timestamps have the same first 10 characters.
C1_OneRowPerDate ==
    \A i, j \in 1..Len(store.rows) :
        i # j => DatePrefix(store.rows[i].t) # DatePrefix(store.rows[j].t)

\* An append was persisted next to an older row, on a date earlier than the
\* last row's.
C1_Witness ==
    \E p \in Procs :
        /\ pc[p] = "done"
        /\ outcome[p] = "ok"
        /\ Len(store.rows) >= 2
        /\ has_row_for_date(store0[p].rows, IsoDate(2))
        /\ Today(now[p]) = IsoDate(1)

\* C2: of two consecutive invocations in the window on the same local date,
\* the first, succeeding, leaves exactly one more row, the only one of that
\* date, after one rewrite of the store; the second ends on the duplicate
\* check with no request to either source, the loaded rows as read and the
\* store as it found it.
C2_SecondRunIsNoOp ==
    \A p \in Procs :
        /\ (pc[p] = "done" /\ outcome[p] = "ok") =>
              /\ Len(store.rows) = Len(store0[p].rows) + 1
              /\ DatePrefix(store.rows[Len(store.rows)].t) = Today(now[p])
              /\ CountDate(store.rows, Today(now[p])) = 1
              /\ writes[p] = 1
        /\ (pc[p] # "idle" /\ InWindow(now[p]) /\ lastOk = Today(now[p])) =>
              /\ pc[p] \in {"load", "done"}
              /\ pc[p] = "done" => outcome[p] = "skip_dup" /\ rows[p] = store0[p].rows
              /\ anuReqs[p] = 0
              /\ priceReqs[p] = 0
              /\ writes[p] = 0
              /\ store = store0[p]

\* The second of two runs on one date has ended, after a first that added a
\* row to a ledger that already had one.
C2_Witness ==
    \E p \in Procs :
        /\ pc[p] = "done"
        /\ outcome[p] = "skip_dup"
        /\ lastOk = Today(now[p])
        /\ Len(store.rows) >= 2

Failures ==
    {"no_key", "anu_transport", "anu_status", "anu_nonjson", "anu_shape",
     "anu_range", "price_http", "price_shape", "price_parse"}

\* C3: an invocation that fails after the two gates ends non-zero with the
\* store as it was, having sent at most one request to each source; and the
\* store is opened for writing only once both fetches have returned and the
\* new ledger is built.
C3_FailureLeavesStore ==
    \A p \in Procs :
        /\ (pc[p] = "done" /\ outcome[p] \in Failures) =>
              /\ exitCode[p] # 0
              /\ store = store0[p]
              /\ writes[p] = 0
        /\ anuReqs[p] <= 1
        /\ priceReqs[p] <= 1
        /\ writes[p] > 0 =>
              /\ anuReqs[p] = 1
              /\ priceReqs[p] = 1
              /\ Len(rows[p]) = Len(store0[p].rows) + 1
              /\ Persisting(p)

\* The price source failed after the random source had answered, over a
\* ledger that has a row.
C3_Witness ==
    \E p \in Procs :
        /\ pc[p] = "done"
        /\ outcome[p] = "price_http"
        /\ anuReqs[p] = 1
        /\ store.rows # <<>>

\* C4: an invocation that ends on either skip exits with 0, has sent no
\* request to either source and has not written the store.
C4_SkipDoesNothing ==
    \A p \in Procs :
        (pc[p] = "done" /\ outcome[p] \in {"skip_window", "skip_dup"}) =>
            /\ exitCode[p] = 0
            /\ anuReqs[p] = 0
            /\ priceReqs[p] = 0
            /\ writes[p] = 0
            /\ store = store0[p]

\* A skip outside the window, at 22:00:00, over a store with a pending row.
C4_Witness ==
    \E p \in Procs :
        /\ pc[p] = "done"
        /\ outcome[p] = "skip_window"
        /\ now[p].sec = 79200
        /\ store.rows # <<>>

\* C5: an invocation gets past the gate exactly when its local time of day
\* is from 20:00:00 up to 21:59:59; 21:59:59 proceeds, 19:59:59 and
\* 22:00:00 skip.
C5_GateWindow ==
    \A p \in Procs :
        pc[p] # "idle" =>
            /\ (outcome[p] # "skip_window") <=> (72000 <= now[p].sec /\ now[p].sec < 79200)
            /\ now[p].sec = 79199 => outcome[p] # "skip_window"
            /\ now[p].sec \in {71999, 79200} => pc[p] = "done" /\ outcome[p] = "skip_window"

\* An invocation at 21:59:59 local time is about to load the store.
C5_Witness ==
    \E p \in Procs : pc[p] = "load" /\ now[p].sec = 79199

\* The invocations that are past the completion and the append.
AfterCompute(p) == pc[p] = "open" \/ Persisting(p)

\* The last row of the ledger the invocation loaded, and what it became.
Prev0(p) == store0[p].rows[Len(store0[p].rows)]
Prev1(p) == rows[p][Len(store0[p].rows)]

\* C6 (as claimed): an interrupted write_csv leaves the store holding either
\* all of the prior content or all of the new ledger.
C6_PersistAtomic ==
    \A p \in Procs :
        (pc[p] = "done" /\ outcome[p] = "killed") =>
            \/ store = store0[p]
            \/ store = File(HEADER, rows[p])

\* C7 (as claimed): past the fetches, the last loaded row was completed
\* exactly when its aV and aP were both empty and its qV was not.
C7_CompletedIffPending ==
    \A p \in Procs :
        (AfterCompute(p) /\ store0[p].rows # <<>>) =>
            (patched[p] <=>
                (~NonEmpty(Prev0(p).aV) /\ ~NonEmpty(Prev0(p).aP) /\ NonEmpty(Prev0(p).qV)))

\* C7 (amended): past the fetches, the last loaded row was completed exactly
\* when its aV and aP were both empty and its qV was the text of a finite
\* number; a completion changes no other field of it, and without one the row
\* is as loaded.
C7_CompletedIffPendingFinite ==
    \A p \in Procs :
        AfterCompute(p) =>
            IF store0[p].rows = <<>> THEN ~patched[p]
            ELSE /\ patched[p] <=>
                      /\ ~NonEmpty(Prev0(p).aV)
                      /\ ~NonEmpty(Prev0(p).aP)
                      /\ Prev0(p).qV.k = "dec"
                 /\ ~patched[p] => Prev1(p) = Prev0(p)
                 /\ [Prev1(p) EXCEPT !.aV = Prev0(p).aV, !.aP = Prev0(p).aP] = Prev0(p)

\* A completion took place on a row whose aV was blank, not empty.
C7_Witness ==
    \E p \in Procs :
        /\ AfterCompute(p)
        /\ patched[p]
        /\ store0[p].rows # <<>>
        /\ Prev0(p).aV = BlankStr

\* The price in cents, for a price with at most two decimals.
Cents(x) == x.num * (100 \div x.den)

\* C8: a completion with a finite price v over a previous qV = p writes
\* aV = |v - p| with 2 decimals; for p # 0 it writes aP, with 6 decimals, the
\* nearest to aV / p; for p = 0 it writes aV and leaves aP empty; p = 100.00
\* and v = 105.00 give "5.00" and "0.050000".
C8_DeviationValues ==
    \A p \in Procs :
        (AfterCompute(p) /\ patched[p] /\ v[p].fin) =>
            LET pq == Prev0(p).qV.n
                vc == Cents(v[p])
                aV == Abs(vc - pq)
                aP == Prev1(p).aP
            IN  /\ Prev0(p).qV.nd = 2
                /\ Prev1(p).aV = Dec(2, aV)
                /\ pq # 0 =>
                      /\ aP.k = "dec"
                      /\ aP.nd = 6
                      /\ 2 * Abs(aV * 1000000 - aP.n * pq) <= Abs(pq)
                /\ pq = 0 => aP = EmptyStr
                /\ (pq = 10000 /\ vc = 10500) =>
                      Prev1(p).aV = Dec(2, 500) /\ aP = Dec(6, 50000)

\* The row with qV = 100.00 was completed with the price 105.00.
C8_Witness ==
    \E p \in Procs :
        /\ AfterCompute(p)
        /\ patched[p]
        /\ Prev0(p).qV = Dec(2, 10000)
        /\ v[p] = Rat(105, 1)

\* C9: completing the previous row a second time with the same price leaves
\* the ledger as the first completion left it; with a finite price the second
\* completion assigns nothing, also when the previous qV is 0 and aP stayed
\* empty.
C9_CompletionIdempotent ==
    \A p \in Procs :
        AfterCompute(p) =>
            LET once  == CompletePrevious(store0[p].rows, v[p])
                twice == CompletePrevious(once, v[p])
            IN  /\ SubSeq(rows[p], 1, Len(store0[p].rows)) = once
                /\ twice = once
                /\ (patched[p] /\ v[p].fin) => ~WillPatch(once)

\* A row with qV = 0.00 was completed: aV is set, aP is still empty.
C9_Witness ==
    \E p \in Procs :
        /\ AfterCompute(p)
        /\ patched[p]
        /\ v[p].fin
        /\ Prev0(p).qV = Dec(2, 0)
        /\ Prev1(p).aP = EmptyStr
        /\ NonEmpty(Prev1(p).aV)

\* C10: a row that has both aV and aP when an invocation starts has the same
\* aV and aP in the store when that invocation has ended, however it ended.
C10_SetOnceNeverRecomputed ==
    \A p \in Procs :
        pc[p] = "done" =>
            \A i \in 1..Len(store0[p].rows) :
                (NonEmpty(store0[p].rows[i].aV) /\ NonEmpty(store0[p].rows[i].aP)) =>
                    /\ i <= Len(store.rows)
                    /\ store.rows[i].aV = store0[p].rows[i].aV
                    /\ store.rows[i].aP = store0[p].rows[i].aP

\* A run appended after a last row that was complete, at a price that would
\* have given it another aV.
C10_Witness ==
    \E p \in Procs :
        /\ pc[p] = "done"
        /\ outcome[p] = "ok"
        /\ Len(store0[p].rows) = 1
        /\ store0[p].rows[1].aV = Dec(2, 500)
        /\ store0[p].rows[1].aP = Dec(6, 50000)
        /\ v[p] = Rat(100, 1)

\* The last row of the store has neither aV nor aP.
LastPending(s) ==
    /\ s.rows # <<>>
    /\ s.rows[Len(s.rows)].aV = EmptyStr
    /\ s.rows[Len(s.rows)].aP = EmptyStr

\* C11: when an invocation has appended, the last row of the store has empty
\* aV and aP; and a last row with empty aV and aP keeps them through every
\* step of every invocation, skipped or failed, until an invocation is
\* rewriting the store for its own append.
C11_LastRowPending ==
    [][ /\ \A p \in Procs :
             (pc'[p] = "done" /\ outcome'[p] = "ok") => LastPending(store')
        /\ LastPending(store) =>
             \/ LastPending(store')
             \/ \E p \in Procs : pc'[p] \in {"header", "rows"} ]_vars

\* After the append of day 1 at 21:59:59, an invocation of day 2 failed on
\* the price source and the last row is still pending.
C11_Witness ==
    \E p \in Procs :
        /\ pc[p] = "done"
        /\ outcome[p] = "price_parse"
        /\ now[p].day = 2
        /\ store.rows # <<>>
        /\ store.rows[Len(store.rows)].t = IsoFormat([day |-> 1, sec |-> 79199, off |-> 1])
        /\ LastPending(store)

\* The invocations that have run read_csv.
Loaded(p) == pc[p] \notin {"idle", "load"} /\ outcome[p] # "skip_window"

\* C12: an invocation whose load finds no store ends non-zero with the store
\* still absent; one whose load finds another header than t,q,v,qV,qP,aV,aP
\* ends non-zero with the store as it was; neither sends a request to either
\* source.
C12_LoadFailures ==
    \A p \in Procs :
        Loaded(p) =>
            /\ ~store0[p].exists =>
                  /\ pc[p] = "done"
                  /\ outcome[p] = "missing_store"
                  /\ ~store.exists
            /\ (store0[p].exists /\ store0[p].header # HEADER) =>
                  /\ pc[p] = "done"
                  /\ outcome[p] = "schema"
                  /\ store = store0[p]
            /\ outcome[p] \in {"missing_store", "schema"} =>
                  /\ exitCode[p] # 0
                  /\ anuReqs[p] = 0
                  /\ priceReqs[p] = 0
                  /\ writes[p] = 0

\* An invocation in the window, with a key in its environment, ended on a
\* missing store.
C12_Witness ==
    \E p \in Procs :
        /\ pc[p] = "done"
        /\ outcome[p] = "missing_store"
        /\ ~KeyMissing(key[p])
        /\ ~store.exists

\* The outcomes of a failed request to the random source.
AnuFailures == {"anu_transport", "anu_status", "anu_nonjson", "anu_shape", "anu_range"}

\* C13: an invocation sends at most one request to each source; the request
\* to the random source comes after the gate, the load and the duplicate
\* check; the price request comes only after the random source returned a
\* value in 0..65535; the ledger is written only after both, as the loaded
\* ledger with its last row completed and the new row appended; a successful
\* run has sent exactly one request to each source and written once.
C13_Order ==
    \A p \in Procs :
        /\ anuReqs[p] <= 1
        /\ priceReqs[p] <= anuReqs[p]
        /\ writes[p] <= priceReqs[p]
        /\ pc[p] \in {"load", "anu"} => anuReqs[p] = 0
        /\ anuReqs[p] = 1 =>
              /\ InWindow(now[p])
              /\ store0[p].exists
              /\ store0[p].header = HEADER
              /\ ~has_row_for_date(store0[p].rows, Today(now[p]))
              /\ rows[p] = store0[p].rows \/ AfterCompute(p)
        /\ outcome[p] \in AnuFailures => priceReqs[p] = 0
        /\ priceReqs[p] = 1 =>
              /\ n[p] \in 0..Uint16Max
              /\ q[p] = map_uint16_to_q(n[p])
        /\ pc[p] = "compute" => priceReqs[p] = 1 /\ writes[p] = 0
        /\ AfterCompute(p) =>
              rows[p] = Append(CompletePrevious(store0[p].rows, v[p]),
                               NewRow(now[p], q[p], v[p]))
        /\ writes[p] = 1 => AfterCompute(p)
        /\ (pc[p] = "done" /\ outcome[p] = "ok") =>
              anuReqs[p] = 1 /\ priceReqs[p] = 1 /\ writes[p] = 1

\* A successful run that completed the previous row.
C13_Witness ==
    \E p \in Procs :
        /\ pc[p] = "done"
        /\ outcome[p] = "ok"
        /\ patched[p]
        /\ anuReqs[p] = 1
        /\ priceReqs[p] = 1

\* The environment holds no key, or one made of whitespace only.
MissingOrBlank(k) == ~k.set \/ \A i \in 1..Len(k.val) : k.val[i] = " "

\* C14 as stated: every invocation whose API key is missing or blank sends no
\* request, writes nothing and ends non-zero.
C14_MissingKeyIsFatal ==
    \A p \in Procs :
        (pc[p] = "done" /\ MissingOrBlank(key[p])) =>
            /\ anuReqs[p] = 0
            /\ priceReqs[p] = 0
            /\ writes[p] = 0
            /\ exitCode[p] # 0

\* C14: an invocation whose API key is missing or blank sends no request and
\* leaves the store as it found it; the key is read when the random source is
\* first called, so the invocation ends non-zero on the key when it gets that
\* far, ends non-zero on the load when the store is missing or has another
\* header, and ends 0 when the gate or the duplicate check skips it.
C14_MissingKeyNoRequest ==
    \A p \in Procs :
        /\ (pc[p] # "idle" /\ MissingOrBlank(key[p])) =>
              /\ anuReqs[p] = 0
              /\ priceReqs[p] = 0
              /\ writes[p] = 0
              /\ store = store0[p]
              /\ pc[p] \in {"load", "anu", "done"}
              /\ pc[p] = "done" =>
                    /\ outcome[p] \in {"skip_window", "missing_store", "schema",
                                       "skip_dup", "no_key"}
                    /\ exitCode[p] = 0 <=> outcome[p] \in {"skip_window", "skip_dup"}
                    /\ outcome[p] = "no_key" <=>
                          /\ InWindow(now[p])
                          /\ store0[p].exists
                          /\ store0[p].header = HEADER
                          /\ ~has_row_for_date(store0[p].rows, Today(now[p]))
        /\ outcome[p] = "no_key" => MissingOrBlank(key[p])

\* An invocation with a blank key ended on the key.
C14_Witness ==
    \E p \in Procs :
        /\ pc[p] = "done"
        /\ outcome[p] = "no_key"
        /\ key[p].set
        /\ key[p].val # <<>>
        /\ exitCode[p] = 1

\* ---------------------------------------------------------------------
\* map_uint16_to_q on its own: each process draws an n and maps it.

\* Both ends of 0..65535, their neighbours, the middle, and the multiples
\* of the divisors of 65535 (where n/65535 reduces).
MapSamples ==
    {0, 1, 2, 3, 255, 257, 4369, 13107, 21845, 32767, 32768, 43690,
     65533, 65534, Uint16Max}

InitMap == Init /\ store = Absent

MapDraw(p) ==
    /\ pc[p] = "idle"
    /\ \E k \in MapSamples :
          /\ n' = [n EXCEPT ![p] = k]
          /\ q' = [q EXCEPT ![p] = map_uint16_to_q(k)]
    /\ pc' = [pc EXCEPT ![p] = "mapped"]
    /\ UNCHANGED <<store, now, rows, v, patched, wi, outcome, exitCode, anuReqs,
                   priceReqs, writes, store0, lastOk, key, failedOn, tornRead>>

MapReset(p) ==
    /\ pc[p] = "mapped"
    /\ n' = [n EXCEPT ![p] = 0]
    /\ q' = [q EXCEPT ![p] = NaN]
    /\ pc' = [pc EXCEPT ![p] = "idle"]
    /\ UNCHANGED <<store, now, rows, v, patched, wi, outcome, exitCode, anuReqs,
                   priceReqs, writes, store0, lastOk, key, failedOn, tornRead>>

NextMap ==
    \/ \E p \in Procs : MapDraw(p)
    \/ \E p \in Procs : MapReset(p)

SpecMap == InitMap /\ [][NextMap]_vars

\* x as a count of 1/65535, for an x whose denominator divides 65535.
In65535ths(x) == x.num * (Uint16Max \div x.den)

\* C15: for n in 0..65535, map_uint16_to_q(n) is -1 + 2n/65535, lies in
\* [-1, 1], maps 0 to -1 and 65535 to 1, and is strictly increasing in n.
C15_MapRange ==
    \A p \in Procs :
        pc[p] = "mapped" =>
            /\ q[p].fin
            /\ Uint16Max % q[p].den = 0
            /\ In65535ths(q[p]) = 2 * n[p] - Uint16Max
            /\ -q[p].den <= q[p].num
            /\ q[p].num <= q[p].den
            /\ n[p] = 0 => q[p] = Rat(-1, 1)
            /\ n[p] = Uint16Max => q[p] = Rat(1, 1)
            /\ \A o \in Procs :
                  (pc[o] = "mapped" /\ Uint16Max % q[o].den = 0 /\ n[p] < n[o]) =>
                      In65535ths(q[p]) < In65535ths(q[o])

\* Two neighbouring values at the upper end have been mapped.
C15_Witness ==
    \E p, o \in Procs :
        /\ pc[p] = "mapped"
        /\ pc[o] = "mapped"
        /\ n[p] = Uint16Max - 1
        /\ n[o] = Uint16Max
        /\ q[o] = Rat(1, 1)

\* The invocations that have run the duplicate check.
Checked(p) == Loaded(p) /\ store0[p].exists /\ store0[p].header = HEADER

\* C16 as stated: has_row_for_date(rows, d) is true exactly when the first 10
\* characters of some row's t are d, and false for the empty ledger.
C16_RawPrefix ==
    \A p \in Procs :
        Checked(p) =>
            /\ outcome[p] = "skip_dup" <=>
                  \E i \in 1..Len(store0[p].rows) :
                      DatePrefix(store0[p].rows[i].t) = Today(now[p])
            /\ store0[p].rows = <<>> => outcome[p] # "skip_dup"

\* C16: has_row_for_date(rows, d) is true exactly when some row's t, with the
\* whitespace around it removed, has at least 10 characters of which the
\* first 10 are d; it is false for the empty ledger.
C16_StrippedPrefix ==
    \A p \in Procs :
        Checked(p) =>
            /\ outcome[p] = "skip_dup" <=>
                  \E i \in 1..Len(store0[p].rows) :
                      /\ Len(Strip(store0[p].rows[i].t)) >= DateLen
                      /\ SubSeq(Strip(store0[p].rows[i].t), 1, DateLen) = Today(now[p])
            /\ store0[p].rows = <<>> => outcome[p] # "skip_dup"

\* The check found today's date in a t that starts with a space.
C16_Witness ==
    \E p \in Procs :
        /\ pc[p] = "done"
        /\ outcome[p] = "skip_dup"
        /\ Len(store0[p].rows) = 1
        /\ Head(store0[p].rows[1].t) = " "
        /\ DatePrefix(store0[p].rows[1].t) # Today(now[p])

\* Row r with its aV and aP blanked out.
SansDeviation(r) == [r EXCEPT !.aV = EmptyStr, !.aP = EmptyStr]

\* The seven named fields of a stored row.
Cols(r) == [f \in {"t", "q", "v", "qV", "qP", "aV", "aP"} |-> r[f]]

GateOverlap(p) ==
    /\ pc[p] = "idle"
    /\ \E day \in Days, utcsec \in UtcInstants, off \in Offsets :
         LET t == ToLocal(day, utcsec, off)
         IN  /\ now' = [now EXCEPT ![p] = t]
             /\ IF InWindow(t)
                THEN /\ pc' = [pc EXCEPT ![p] = "load"]
                     /\ UNCHANGED <<outcome, exitCode>>
                ELSE End(p, "skip_window", 0)
    /\ \E k \in Keys : key' = [key EXCEPT ![p] = k]
    /\ store0' = [store0 EXCEPT ![p] = store]
    /\ UNCHANGED <<store, rows, n, v, patched, wi, anuReqs, priceReqs, writes, lastOk,
                   q, failedOn, tornRead>>

NextRace ==
    \E p \in Procs :
        \/ GateOverlap(p)
        \/ Load(p)
        \/ FetchAnu(p)
        \/ FetchPrice(p)
        \/ Compute(p)
        \/ WriteOpen(p)
        \/ WriteHeader(p)
        \/ WriteRow(p)
        \/ Finish(p)

\* Two invocations, each run once, interleaved in every way.
SpecRace == Init /\ [][NextRace]_vars

\* The calendar dates of the model's days.
Dates == {IsoDate(d) : d \in Days}

\* Both invocations ran to the end on the same date, each having loaded the
\* ledger before the other opened it for writing.
BothOk ==
    /\ \A p \in Procs : pc[p] = "done" /\ outcome[p] = "ok"
    /\ \A p, o \in Procs : Today(now[p]) = Today(now[o])
    /\ ~tornRead

FreshDays == 1..MaxFreshDay

\* One clock reading inside the window (21:59:59+01:00) and one past it.
FreshInstants == {75599, 75600}

FreshOffsets == {1}

FinitePrices == {x \in Prices : x.fin /\ x.num > 0}

InitFresh == Init /\ store = File(HEADER, <<>>)

GateFresh(p) ==
    /\ pc[p] = "idle"
    /\ \A o \in Procs : pc[o] = "idle"
    /\ \E day \in FreshDays, utcsec \in FreshInstants, off \in FreshOffsets :
         LET t == ToLocal(day, utcsec, off)
         IN  /\ now' = [now EXCEPT ![p] = t]
             /\ IF InWindow(t)
                THEN /\ pc' = [pc EXCEPT ![p] = "load"]
                     /\ UNCHANGED <<outcome, exitCode>>
                ELSE End(p, "skip_window", 0)
    /\ \E k \in Keys : key' = [key EXCEPT ![p] = k]
    /\ store0' = [store0 EXCEPT ![p] = store]
    /\ UNCHANGED <<store, rows, n, v, patched, wi, anuReqs, priceReqs, writes, lastOk,
                   q, failedOn, tornRead>>

FetchPriceFinite(p) ==
    /\ pc[p] = "price"
    /\ priceReqs' = [priceReqs EXCEPT ![p] = @ + 1]
    /\ \/ End(p, "price_http", 1) /\ UNCHANGED v
       \/ End(p, "price_shape", 1) /\ UNCHANGED v
       \/ End(p, "price_parse", 1) /\ UNCHANGED v
       \/ \E x \in FinitePrices :
            /\ v' = [v EXCEPT ![p] = x]
            /\ pc' = [pc EXCEPT ![p] = "compute"]
            /\ UNCHANGED <<outcome, exitCode>>
    /\ UNCHANGED <<store, now, rows, n, patched, wi, anuReqs, writes, store0, lastOk,
                   key, q, failedOn, tornRead>>

NextFresh ==
    \E p \in Procs :
        \/ GateFresh(p)
        \/ Load(p)
        \/ FetchAnu(p)
        \/ FetchPriceFinite(p)
        \/ Compute(p)
        \/ WriteOpen(p)
        \/ WriteHeader(p)
        \/ WriteRow(p)
        \/ Finish(p)
        \/ Exit(p)

SpecFresh == InitFresh /\ [][NextFresh]_vars

\* No invocation has the store open for writing.
AtRest == \A p \in Procs : pc[p] \notin {"header", "rows"}

\* C19: in a ledger grown from a header-only store by invocations run one at
\* a time with finite positive prices, every row but the last has an aV, and
\* it is |the row's own qV - the next row's v|, in hundredths.
C19_DeviationChain ==
    AtRest =>
        \A i \in 1..(Len(store.rows) - 1) :
            /\ store.rows[i].qV.k = "dec"
            /\ store.rows[i + 1].v.k = "dec"
            /\ store.rows[i].aV =
                  Dec(2, Abs(store.rows[i + 1].v.n - store.rows[i].qV.n))

\* A row of day 1 was completed by the run of day 3, with a deviation that
\* is not zero.
C19_Witness ==
    /\ AtRest
    /\ Len(store.rows) = 2
    /\ DatePrefix(store.rows[1].t) = IsoDate(1)
    /\ DatePrefix(store.rows[2].t) = IsoDate(3)
    /\ store.rows[1].aV.k = "dec"
    /\ store.rows[1].aV.n > 0
    /\ store.rows[1].qV # store.rows[1].v

\* ---------------------------------------------------------------------
\* Invocations run one at a time against a valid store; a process that has
\* both values in hand keeps running: main is straight-line from line 155
\* to its return, so each of its remaining steps is taken once enabled.

LiveLedgers ==
    { <<>>,
      <<Row(T0, Q0, V0, Dec(2, 10000), Q0, EmptyStr, EmptyStr)>> }

InitLive == Init /\ store \in {File(HEADER, l) : l \in LiveLedgers}

GateLive(p) ==
    /\ pc[p] = "idle"
    /\ \A o \in Procs : pc[o] = "idle"
    /\ \E day \in Days, utcsec \in FreshInstants, off \in FreshOffsets :
         LET t == ToLocal(day, utcsec, off)
         IN  /\ now' = [now EXCEPT ![p] = t]
             /\ IF InWindow(t)
                THEN /\ pc' = [pc EXCEPT ![p] = "load"]
                     /\ UNCHANGED <<outcome, exitCode>>
                ELSE End(p, "skip_window", 0)
    /\ \E k \in Keys : key' = [key EXCEPT ![p] = k]
    /\ store0' = [store0 EXCEPT ![p] = store]
    /\ UNCHANGED <<store, rows, n, v, patched, wi, anuReqs, priceReqs, writes, lastOk,
                   q, failedOn, tornRead>>

NextLive ==
    \E p \in Procs :
        \/ GateLive(p)
        \/ Load(p)
        \/ FetchAnu(p)
        \/ FetchPrice(p)
        \/ Compute(p)
        \/ WriteOpen(p)
        \/ WriteHeader(p)
        \/ WriteRow(p)
        \/ Finish(p)
        \/ Exit(p)

\* The steps of write_csv and main's return after it.
Persist(p) ==
    \/ WriteOpen(p)
    \/ WriteHeader(p)
    \/ WriteRow(p)
    \/ Finish(p)

\* Weak fairness of Compute(p): the action is enabled exactly when
\* pc[p] = "compute" and every step of it leaves that position, so
\* WF_vars(Compute(p)) is []<>(pc[p] # "compute").
ComputeFair(p) == []<>(pc[p] # "compute")

SpecLive ==
    /\ InitLive
    /\ [][NextLive]_vars
    /\ \A p \in Procs : ComputeFair(p) /\ WF_vars(Persist(p))

\* C20: against a valid store, with invocations run one at a time, an
\* invocation inside a day's window that has the key and gets both values
\* leads to a ledger at rest with exactly one row for that date, whatever
\* failed before it that day; and no date ever has two rows.
C20_FailureDoesNotBlock ==
    /\ (\E p \in Procs : pc[p] = "compute")
          ~> (\E p \in Procs :
                 /\ pc[p] = "done"
                 /\ outcome[p] = "ok"
                 /\ CountDate(store.rows, Today(now[p])) = 1)
    /\ [](\A d \in Days : CountDate(store.rows, IsoDate(d)) <= 1)

\* A run persisted the day's row right after a run of the same day had
\* failed on a fetch.
C20_Witness ==
    \E p \in Procs :
        /\ pc[p] = "done"
        /\ outcome[p] = "ok"
        /\ failedOn = Today(now[p])
        /\ CountDate(store.rows, Today(now[p])) = 1

====
